---- MODULE Spec2Model ----
(***************************************************************************)
(* hamsando: a dynamic-DNS updater for the Porkbun API.                    *)
(*                                                                         *)
(*   src/src/record.rs  record types and record content                    *)
(*   src/src/lib.rs     Client: the requests sent to the provider          *)
(*   src/src/main.rs    main and update_dns: the reconciliation            *)
(*                                                                         *)
(* Strings are sequences of one-character strings.  A domain name is the   *)
(* sequence of its labels, so <<"s", "a", "com">> is s.a.com.  Option<T>   *)
(* is a sequence of length at most one: <<>> is None, <<x>> is Some(x).    *)
(* Result<T, E> is a record with the field ok.                             *)
(***************************************************************************)
EXTENDS Naturals, Sequences, FiniteSets

None == <<>>

Some(x) == <<x>>

IsSome(o) == Len(o) > 0

(***************************************************************************)
(* Text                                                                    *)
(***************************************************************************)
HexChars == <<"0", "1", "2", "3", "4", "5", "6", "7", "8", "9",
              "a", "b", "c", "d", "e", "f">>

UpperHexChars == <<"0", "1", "2", "3", "4", "5", "6", "7", "8", "9",
                   "A", "B", "C", "D", "E", "F">>

IsDecChar(c) == \E i \in 1..10 : HexChars[i] = c

IsHexChar(c) == \E i \in 1..16 : HexChars[i] = c \/ UpperHexChars[i] = c

CharVal(c) == (CHOOSE i \in 1..16 : HexChars[i] = c \/ UpperHexChars[i] = c) - 1

RECURSIVE NumToStr(_, _)
\* n in the given base, without leading zeros ("0" for zero).
NumToStr(n, base) ==
    IF n < base THEN <<HexChars[n + 1]>>
    ELSE NumToStr(n \div base, base) \o <<HexChars[(n % base) + 1]>>

RECURSIVE StrToNum(_, _)
StrToNum(s, base) ==
    IF s = <<>> THEN 0
    ELSE StrToNum(SubSeq(s, 1, Len(s) - 1), base) * base + CharVal(s[Len(s)])

RECURSIVE Split(_, _)
\* str::split: the pieces of s between the occurrences of the character sep.
Split(s, sep) ==
    IF \A i \in 1..Len(s) : s[i] # sep THEN <<s>>
    ELSE LET k == CHOOSE i \in 1..Len(s) :
                      s[i] = sep /\ \A j \in 1..(i - 1) : s[j] # sep
         IN  <<SubSeq(s, 1, k - 1)>> \o Split(SubSeq(s, k + 1, Len(s)), sep)

RECURSIVE Join(_, _)
Join(parts, sep) ==
    IF parts = <<>> THEN <<>>
    ELSE IF Len(parts) = 1 THEN parts[1]
    ELSE parts[1] \o <<sep>> \o Join(Tail(parts), sep)

(***************************************************************************)
(* std::net::Ipv4Addr: four octets.                                        *)
(***************************************************************************)
Ipv4ToString(addr) ==
    Join([i \in 1..4 |-> NumToStr(addr[i], 10)], ".")

\* One octet of a dotted quad: 1 to 3 decimal digits, no leading zero, <= 255.
IsOctetStr(p) ==
    /\ Len(p) \in 1..3
    /\ \A i \in 1..Len(p) : IsDecChar(p[i])
    /\ (Len(p) > 1 => p[1] # "0")
    /\ StrToNum(p, 10) <= 255

\* str::parse::<Ipv4Addr>(): Some(addr), or None for AddrParseError.
ParseIpv4(s) ==
    LET parts == Split(s, ".")
    IN  IF Len(parts) = 4 /\ \A i \in 1..4 : IsOctetStr(parts[i])
        THEN Some([i \in 1..4 |-> StrToNum(parts[i], 10)])
        ELSE None

(***************************************************************************)
(* std::net::Ipv6Addr: eight 16-bit segments.                              *)
(***************************************************************************)
IsIpv4Mapped(addr) ==
    /\ \A i \in 1..5 : addr[i] = 0
    /\ addr[6] = 65535

EmbeddedIpv4(addr) ==
    <<addr[7] \div 256, addr[7] % 256, addr[8] \div 256, addr[8] % 256>>

\* The length of the run of zero segments that starts at segment i.
ZeroRun(addr, i) ==
    IF addr[i] # 0 THEN 0
    ELSE LET ends == {j \in i..8 : \A k \in i..j : addr[k] = 0}
         IN  Cardinality(ends)

\* The first longest run of zero segments: <<start, len>>.
LongestZeroRun(addr) ==
    LET best == CHOOSE i \in 1..8 :
                    /\ \A j \in 1..8 : ZeroRun(addr, j) <= ZeroRun(addr, i)
                    /\ \A j \in 1..(i - 1) : ZeroRun(addr, j) < ZeroRun(addr, i)
    IN  <<best, ZeroRun(addr, best)>>

\* The segments written in decimal.
DecGroups(addr, from, to) ==
    Join([i \in 1..(to - from + 1) |-> NumToStr(addr[from + i - 1], 10)], ":")

HexGroups(addr, from, to) ==
    Join([i \in 1..(to - from + 1) |-> NumToStr(addr[from + i - 1], 16)], ":")

Ipv6ToString(addr) ==
    IF IsIpv4Mapped(addr)
    THEN <<":", ":", "f", "f", "f", "f", ":">> \o Ipv4ToString(EmbeddedIpv4(addr))
    ELSE LET run == LongestZeroRun(addr)
         IN  IF run[2] > 1
             THEN HexGroups(addr, 1, run[1] - 1) \o <<":", ":">>
                      \o HexGroups(addr, run[1] + run[2], 8)
             ELSE HexGroups(addr, 1, 8)

IsHexGroupStr(p) ==
    /\ Len(p) \in 1..4
    /\ \A i \in 1..Len(p) : IsHexChar(p[i])

\* The segments a colon-separated list of groups stands for; the last group
\* may be a dotted quad when ipv4Last.  None when a group is malformed.
Ipv6Segments(parts, ipv4Last) ==
    LET n == Len(parts)
        quad == IF ipv4Last /\ n > 0 THEN ParseIpv4(parts[n]) ELSE None
        hexes == IF IsSome(quad) THEN SubSeq(parts, 1, n - 1) ELSE parts
    IN  IF \E i \in 1..Len(hexes) : ~IsHexGroupStr(hexes[i]) THEN None
        ELSE Some([i \in 1..Len(hexes) |-> StrToNum(hexes[i], 16)]
                  \o (IF IsSome(quad)
                      THEN <<quad[1][1] * 256 + quad[1][2],
                             quad[1][3] * 256 + quad[1][4]>>
                      ELSE <<>>))

ColonParts(s) == IF s = <<>> THEN <<>> ELSE Split(s, ":")

\* str::parse::<Ipv6Addr>(): Some(addr), or None for AddrParseError.
ParseIpv6(s) ==
    LET gaps == {i \in 1..(Len(s) - 1) : s[i] = ":" /\ s[i + 1] = ":"}
    IN  IF gaps = {}
        THEN LET segs == Ipv6Segments(ColonParts(s), TRUE)
             IN  IF IsSome(segs) /\ Len(segs[1]) = 8 THEN segs ELSE None
        ELSE LET g == CHOOSE i \in gaps : \A j \in gaps : i <= j
                 head == Ipv6Segments(ColonParts(SubSeq(s, 1, g - 1)), FALSE)
                 tail == Ipv6Segments(ColonParts(SubSeq(s, g + 2, Len(s))), TRUE)
             IN  IF IsSome(head) /\ IsSome(tail) /\ Len(head[1]) + Len(tail[1]) <= 7
                 THEN Some(head[1]
                           \o [i \in 1..(8 - Len(head[1]) - Len(tail[1])) |-> 0]
                           \o tail[1])
                 ELSE None

(***************************************************************************)
(* record.rs: Type and Content.  A Type is named by its Rust variant; a    *)
(* Content is [kind |-> variant, value |-> payload], the payload an        *)
(* address for A and Aaaa and a string otherwise.                          *)
(***************************************************************************)
Types == {"A", "Mx", "Cname", "Alias", "Txt", "Ns", "Aaaa", "Srv", "Tlsa",
          "Caa", "Https", "Svcb"}

\* Type::as_str (strum, serialize_all = "UPPERCASE").
TypeAsStr(type) ==
    CASE type = "A" -> "A"
      [] type = "Mx" -> "MX"
      [] type = "Cname" -> "CNAME"
      [] type = "Alias" -> "ALIAS"
      [] type = "Txt" -> "TXT"
      [] type = "Ns" -> "NS"
      [] type = "Aaaa" -> "AAAA"
      [] type = "Srv" -> "SRV"
      [] type = "Tlsa" -> "TLSA"
      [] type = "Caa" -> "CAA"
      [] type = "Https" -> "HTTPS"
      [] type = "Svcb" -> "SVCB"

\* Deserialize for Type (serde, rename_all = "UPPERCASE"): None when the tag
\* names no variant.
TypeFromStr(tag) ==
    IF \E t \in Types : TypeAsStr(t) = tag
    THEN Some(CHOOSE t \in Types : TypeAsStr(t) = tag)
    ELSE None

\* Type::from(&Content).
TypeFrom(content) ==
    CASE content.kind = "A" -> "A"
      [] content.kind = "Mx" -> "Mx"
      [] content.kind = "Cname" -> "Cname"
      [] content.kind = "Alias" -> "Alias"
      [] content.kind = "Txt" -> "Txt"
      [] content.kind = "Ns" -> "Ns"
      [] content.kind = "Aaaa" -> "Aaaa"
      [] content.kind = "Srv" -> "Srv"
      [] content.kind = "Tlsa" -> "Tlsa"
      [] content.kind = "Caa" -> "Caa"
      [] content.kind = "Https" -> "Https"
      [] content.kind = "Svcb" -> "Svcb"

\* Content::type_as_str (strum on Content, serialize_all = "UPPERCASE").
ContentTypeAsStr(content) ==
    CASE content.kind = "A" -> "A"
      [] content.kind = "Mx" -> "MX"
      [] content.kind = "Cname" -> "CNAME"
      [] content.kind = "Alias" -> "ALIAS"
      [] content.kind = "Txt" -> "TXT"
      [] content.kind = "Ns" -> "NS"
      [] content.kind = "Aaaa" -> "AAAA"
      [] content.kind = "Srv" -> "SRV"
      [] content.kind = "Tlsa" -> "TLSA"
      [] content.kind = "Caa" -> "CAA"
      [] content.kind = "Https" -> "HTTPS"
      [] content.kind = "Svcb" -> "SVCB"

\* Content::value_to_string.
value_to_string(content) ==
    CASE content.kind = "A" -> Ipv4ToString(content.value)
      [] content.kind = "Aaaa" -> Ipv6ToString(content.value)
      [] OTHER -> content.value

\* Content::A(string.parse()?) and Content::Aaaa(string.parse()?): addr is
\* the parsed address, None for AddrParseError.
AddrContent(kind, addr) ==
    IF IsSome(addr) THEN Some([kind |-> kind, value |-> addr[1]]) ELSE None

\* Content::from(&Type, &str): Some(content), or None for AddrParseError.
ContentFrom(type, str) ==
    CASE type = "A" -> AddrContent("A", ParseIpv4(str))
      [] type = "Aaaa" -> AddrContent("Aaaa", ParseIpv6(str))
      [] OTHER -> Some([kind |-> type, value |-> str])

\* The content of a record whose type tag parsed to type (None: unknown tag).
TaggedContent(type, str) ==
    IF IsSome(type) THEN ContentFrom(type[1], str) ELSE None

\* Deserialize for Content: the (type, content) pair of a JSON record.
DeserializeContent(tag, str) == TaggedContent(TypeFromStr(tag), str)

\* deserialize_string_to_i64: the id of a JSON record, sent as a string.
DeserializeId(str) ==
    IF str # <<>> /\ \A i \in 1..Len(str) : IsDecChar(str[i])
    THEN Some(StrToNum(str, 10))
    ELSE None

\* A Record of its deserialized fields, None when one failed.
RecordOf(id, name, content) ==
    IF IsSome(id) /\ IsSome(content)
    THEN Some([id |-> id[1], name |-> name, content |-> content[1]])
    ELSE None

\* Deserialize for Record: Some([id, name, content]) or None.
DeserializeRecord(json) ==
    RecordOf(DeserializeId(json.id), json.name,
             DeserializeContent(json.type, json.content))

(***************************************************************************)
(* addr::domain::Name, with the one-label public suffixes of the names     *)
(* used here: the root is the last two labels, the prefix what precedes.   *)
(***************************************************************************)
\* parse_domain_name: None for a name that is empty or has an empty label.
parse_domain_name(name) ==
    IF name # <<>> /\ \A i \in 1..Len(name) : name[i] # ""
    THEN Some(name)
    ELSE None

\* Name::root.
NameRoot(name) ==
    IF Len(name) >= 2 THEN Some(SubSeq(name, Len(name) - 1, Len(name))) ELSE None

\* Name::prefix.
NamePrefix(name) ==
    IF Len(name) > 2 THEN Some(SubSeq(name, 1, Len(name) - 2)) ELSE None


\* lib.rs split_domain: [ok, err, prefix, root], err "" when ok.
split_domain(name) ==
    IF IsSome(NameRoot(name))
    THEN [ok |-> TRUE, err |-> "", prefix |-> NamePrefix(name),
          root |-> NameRoot(name)[1]]
    ELSE [ok |-> FALSE, err |-> "MissingRoot", prefix |-> None, root |-> None]

(***************************************************************************)
(* The provider.  Its state is the sequence of the records it holds, each  *)
(* [id, name, type, content] with the type tag and the content as on the   *)
(* wire.  A request is what a Client method puts in the URL and the JSON   *)
(* payload: [op, root, id, type, name, content], absent parts None.        *)
(***************************************************************************)
Ok(v) == [ok |-> TRUE, val |-> v, err |-> ""]

Err(e) == [ok |-> FALSE, val |-> None, err |-> e]

Request(op, root, id, type, name, content) ==
    [op |-> op, root |-> root, id |-> id, type |-> type, name |-> name,
     content |-> content]

\* The name a (prefix, root) pair addresses.
FullName(prefix, root) == IF IsSome(prefix) THEN prefix[1] \o root ELSE root

InZone(rec, root) == NameRoot(rec.name) = Some(root)

RECURSIVE MaxId(_)
MaxId(prov) ==
    IF prov = <<>> THEN 0
    ELSE IF Head(prov).id > MaxId(Tail(prov)) THEN Head(prov).id
    ELSE MaxId(Tail(prov))

\* A record as the provider's JSON gives it: the id is a string.
ToJson(rec) ==
    [id |-> NumToStr(rec.id, 10), name |-> rec.name, type |-> rec.type,
     content |-> rec.content]

\* The positions of the records a request addresses.
Addressed(prov, req) ==
    {i \in 1..Len(prov) :
        /\ InZone(prov[i], req.root)
        /\ IsSome(req.id) => NumToStr(prov[i].id, 10) = req.id[1]
        /\ req.op \in {"editByNameType", "deleteByNameType", "retrieveByNameType"}
               => /\ prov[i].name = FullName(req.name, req.root)
                  /\ prov[i].type = req.type[1]}

\* prov with the records at the positions kept, in order.
KeepAt(prov, kept) ==
    LET F[i \in 0..Len(prov)] ==
            IF i = 0 THEN <<>>
            ELSE IF i \in kept THEN Append(F[i - 1], prov[i]) ELSE F[i - 1]
    IN  F[Len(prov)]

Answer(ok, prov, body) == [ok |-> ok, prov |-> prov, body |-> body]

\* What the provider does with a request that addresses the positions hit.
Applied(prov, req, hit) ==
    CASE req.op = "ping" -> Answer(TRUE, prov, None)
      [] req.op = "create" ->
             Answer(TRUE,
                    Append(prov, [id |-> MaxId(prov) + 1,
                                  name |-> FullName(req.name, req.root),
                                  type |-> req.type[1],
                                  content |-> req.content[1]]),
                    NumToStr(MaxId(prov) + 1, 10))
      [] req.op = "edit" ->
             IF hit = {} THEN Answer(FALSE, prov, None)
             ELSE Answer(TRUE,
                         [i \in 1..Len(prov) |->
                             IF i \in hit
                             THEN [id |-> prov[i].id,
                                   name |-> FullName(req.name, req.root),
                                   type |-> req.type[1],
                                   content |-> req.content[1]]
                             ELSE prov[i]],
                         None)
      [] req.op = "editByNameType" ->
             IF hit = {} THEN Answer(FALSE, prov, None)
             ELSE Answer(TRUE,
                         [i \in 1..Len(prov) |->
                             IF i \in hit
                             THEN [prov[i] EXCEPT !.content = req.content[1]]
                             ELSE prov[i]],
                         None)
      [] req.op \in {"delete", "deleteByNameType"} ->
             IF hit = {} THEN Answer(FALSE, prov, None)
             ELSE Answer(TRUE, KeepAt(prov, (1..Len(prov)) \ hit), None)
      [] req.op \in {"retrieve", "retrieveByNameType"} ->
             Answer(TRUE, prov,
                    [i \in 1..Cardinality(hit) |-> ToJson(KeepAt(prov, hit)[i])])

\* What the provider does with a request it receives: [ok, prov, body].
ProviderApply(prov, req) == Applied(prov, req, Addressed(prov, req))

\* How a request can end: answered ("ok"); failed with nothing done ("err":
\* no connection, a non-2xx status); failed after the provider acted
\* ("err_applied": the response lost or malformed).
Outcomes == {"ok", "err", "err_applied"}

\* The end of a request of which the provider would make answer.
Ended(prov, answer, outcome) ==
    [ok |-> outcome = "ok" /\ answer.ok,
     body |-> answer.body,
     prov |-> IF outcome = "err" THEN prov ELSE answer.prov]

\* reqwest post(url).json(payload).send()?.error_for_status()?
Send(prov, req, outcome) == Ended(prov, ProviderApply(prov, req), outcome)

(***************************************************************************)
(* lib.rs: the Client's methods.  Each takes the provider's state and how  *)
(* the request ends, and gives [ret, sent, prov]: the value returned, the  *)
(* requests sent, and the provider's state afterwards.                     *)
(***************************************************************************)
Returned(ret, sent, prov) == [ret |-> ret, sent |-> sent, prov |-> prov]

\* A method up to its response: split is split_domain's result, refused the
\* method's own check of the prefix, req the request it builds.  Gives
\* [ok, err, body, sent, prov].
Post(prov, split, refused, req, outcome) ==
    IF ~split.ok
    THEN [ok |-> FALSE, err |-> split.err, body |-> None, sent |-> <<>>,
          prov |-> prov]
    ELSE IF refused
    THEN [ok |-> FALSE, err |-> "HasPrefix", body |-> None, sent |-> <<>>,
          prov |-> prov]
    ELSE [ok |-> Send(prov, req, outcome).ok,
          err |-> IF Send(prov, req, outcome).ok THEN "" ELSE "Reqwest",
          body |-> Send(prov, req, outcome).body,
          sent |-> <<req>>,
          prov |-> Send(prov, req, outcome).prov]

\* A method that returns () once the response is there.
UnitReply(posted) ==
    Returned(IF posted.ok THEN Ok("unit") ELSE Err(posted.err),
             posted.sent, posted.prov)

\* Client::test_auth.
test_auth(prov, outcome) ==
    UnitReply(Post(prov, [ok |-> TRUE], FALSE,
                   Request("ping", None, None, None, None, None), outcome))

\* The URL and payload of create_dns, edit_dns and edit_dns_by_name_type.
ContentRequest(op, split, id, content) ==
    Request(op, split.root, id, Some(ContentTypeAsStr(content)), split.prefix,
            Some(value_to_string(content)))

\* resp.json::<Response>()?.id of create_dns.  The id is deserialized with
\* record::deserialize_to_i64, which record.rs does not hold; it is taken to
\* be deserialize_string_to_i64, the one deserializer of ids there.
CreateReply(posted) ==
    Returned(IF posted.ok /\ IsSome(DeserializeId(posted.body))
             THEN Ok(DeserializeId(posted.body)[1])
             ELSE Err(IF posted.ok THEN "Reqwest" ELSE posted.err),
             posted.sent, posted.prov)

\* create_dns with the prefix left out of the payload: the record is made at
\* the root.
create_dns_at_root(prov, domain, content, outcome) ==
    CreateReply(Post(prov, split_domain(domain), FALSE,
                     Request("create", split_domain(domain).root, None,
                             Some(ContentTypeAsStr(content)), None,
                             Some(value_to_string(content))),
                     outcome))

\* Client::create_dns (ttl and prio None).
create_dns(prov, domain, content, outcome) ==
    CreateReply(Post(prov, split_domain(domain), FALSE,
                     ContentRequest("create", split_domain(domain), None, content),
                     outcome))

\* Client::edit_dns (ttl and prio None).
edit_dns(prov, domain, id, content, outcome) ==
    UnitReply(Post(prov, split_domain(domain), FALSE,
                   ContentRequest("edit", split_domain(domain),
                                  Some(NumToStr(id, 10)), content),
                   outcome))

\* Client::edit_dns_by_name_type (ttl and prio None).
edit_dns_by_name_type(prov, domain, content, outcome) ==
    UnitReply(Post(prov, split_domain(domain), FALSE,
                   ContentRequest("editByNameType", split_domain(domain), None,
                                  content),
                   outcome))

\* delete_dns without its check of the prefix.
delete_dns_unchecked(prov, domain, id, outcome) ==
    UnitReply(Post(prov, split_domain(domain), FALSE,
                   Request("delete", split_domain(domain).root,
                           Some(NumToStr(id, 10)), None, None, None),
                   outcome))

\* Client::delete_dns.
delete_dns(prov, domain, id, outcome) ==
    UnitReply(Post(prov, split_domain(domain),
                   IsSome(split_domain(domain).prefix),
                   Request("delete", split_domain(domain).root,
                           Some(NumToStr(id, 10)), None, None, None),
                   outcome))

\* Client::delete_dns_by_name_type.
delete_dns_by_name_type(prov, domain, type, outcome) ==
    UnitReply(Post(prov, split_domain(domain), FALSE,
                   Request("deleteByNameType", split_domain(domain).root, None,
                           Some(TypeAsStr(type)), split_domain(domain).prefix, None),
                   outcome))

\* The Vec of the deserialized elements, None when one failed.
Collected(parsed) ==
    IF \E i \in 1..Len(parsed) : ~IsSome(parsed[i]) THEN None
    ELSE Some([i \in 1..Len(parsed) |-> parsed[i][1]])

\* Vec<Record> of a JSON body: None when a record does not deserialize.
DeserializeRecords(body) ==
    Collected([i \in 1..Len(body) |-> DeserializeRecord(body[i])])

\* The return of a retrieval whose response deserialized to records.
RecordsReturned(posted, records) ==
    Returned(IF posted.ok /\ IsSome(records)
             THEN Ok(records[1])
             ELSE Err(IF posted.ok THEN "Reqwest" ELSE posted.err),
             posted.sent, posted.prov)

\* resp.json::<Response>()?.records of the two retrievals.
RecordsReply(posted) ==
    RecordsReturned(posted,
                    IF posted.ok THEN DeserializeRecords(posted.body) ELSE None)

\* Client::retrieve_dns (id an Option).
retrieve_dns(prov, domain, id, outcome) ==
    RecordsReply(Post(prov, split_domain(domain),
                      IsSome(split_domain(domain).prefix),
                      Request("retrieve", split_domain(domain).root,
                              IF IsSome(id) THEN Some(NumToStr(id[1], 10)) ELSE None,
                              None, None, None),
                      outcome))

\* Client::retrieve_dns_by_name_type.
retrieve_dns_by_name_type(prov, domain, type, outcome) ==
    RecordsReply(Post(prov, split_domain(domain), FALSE,
                      Request("retrieveByNameType", split_domain(domain).root, None,
                              Some(TypeAsStr(type)), split_domain(domain).prefix,
                              None),
                      outcome))

(***************************************************************************)
(* main.rs: update_dns.  entries is a function from root names to the      *)
(* records retrieved for them.                                             *)
(***************************************************************************)
\* The filter with the comparison of the types left out.
Matching_by_name(records, domain, content) ==
    LET keep(record) == record.name = domain
    IN  SelectSeq(records, keep)

\* The filter of update_dns: the records of the list with the domain's name
\* and the content's type.
Matching(records, domain, content) ==
    LET keep(record) ==
            record.name = domain /\ TypeFrom(record.content) = TypeFrom(content)
    IN  SelectSeq(records, keep)

\* What a call of update_dns did: result is "ok" (Ok(())), "err" (Err) or
\* "panic"; counted are the records the filter kept.
Updated(result, why, counted, sent, prov) ==
    [result |-> result, why |-> why, counted |-> counted, sent |-> sent,
     prov |-> prov]

\* update_dns after client.create_dns(..) or client.edit_dns(..) returned r.
Mutated(how, dns, r) ==
    Updated(IF r.ret.ok THEN "ok" ELSE "err",
            IF r.ret.ok THEN how ELSE r.ret.err,
            dns, r.sent, r.prov)

\* The match without the comparison of the contents: one record is edited
\* whatever it holds.
Decide_without_compare(prov, dns, domain, content, outcome) ==
    IF Len(dns) < 1
    THEN Mutated("created", dns, create_dns(prov, domain, content, outcome))
    ELSE IF Len(dns) = 1
    THEN Mutated("edited", dns, edit_dns(prov, domain, dns[1].id, content, outcome))
    ELSE Updated("err", "multiple", dns, <<>>, prov)

\* The match on dns.len().cmp(&1).
Decide(prov, dns, domain, content, outcome) ==
    IF Len(dns) < 1
    THEN Mutated("created", dns, create_dns(prov, domain, content, outcome))
    ELSE IF Len(dns) = 1
    THEN IF dns[1].content = content
         THEN Updated("ok", "equal", dns, <<>>, prov)
         ELSE Mutated("edited", dns,
                      edit_dns(prov, domain, dns[1].id, content, outcome))
    ELSE Updated("err", "multiple", dns, <<>>, prov)

update_dns(prov, entries, domain, content, outcome) ==
    IF ~IsSome(NameRoot(domain)) THEN Updated("err", "no root", <<>>, <<>>, prov)
    \* entries[root] of a HashMap panics when the key is missing
    ELSE IF NameRoot(domain)[1] \notin DOMAIN entries
    THEN Updated("panic", "no entry", <<>>, <<>>, prov)
    ELSE Decide(prov, Matching(entries[NameRoot(domain)[1]], domain, content),
                domain, content, outcome)

(***************************************************************************)
(* main.rs: main, from the authentication on.                              *)
(***************************************************************************)
\* A DomainInfo of main, or None where the closure returns None.
DomainInfoOf(cfg) ==
    LET name == parse_domain_name(cfg.name)
    IN  IF ~IsSome(name) THEN None
        ELSE IF ~IsSome(NameRoot(name[1])) THEN None
        \* the root is parsed from config.name again, not from name.root()
        ELSE LET root == parse_domain_name(cfg.name)
             IN  IF ~IsSome(root) THEN None
                 ELSE Some([config |-> cfg, name |-> name[1], root |-> root[1]])

\* itertools unique_by: the first element of each key.
UniqueByName(infos) ==
    LET F[i \in 0..Len(infos)] ==
            IF i = 0 THEN <<>>
            ELSE IF \E j \in 1..(i - 1) : infos[j].name = infos[i].name
                 THEN F[i - 1]
                 ELSE Append(F[i - 1], infos[i])
    IN  F[Len(infos)]

UniqueByRoot(infos) ==
    LET F[i \in 0..Len(infos)] ==
            IF i = 0 THEN <<>>
            ELSE IF \E j \in 1..(i - 1) : infos[j].root = infos[i].root
                 THEN F[i - 1]
                 ELSE Append(F[i - 1], infos[i])
    IN  F[Len(infos)]

\* The domains of main: the configured domains that parse and have a root.
DomainInfos(cfgs) ==
    LET F[i \in 0..Len(cfgs)] ==
            IF i = 0 THEN <<>>
            ELSE F[i - 1] \o DomainInfoOf(cfgs[i])
    IN  UniqueByName(F[Len(cfgs)])

(***************************************************************************)
(* Inputs.                                                                 *)
(***************************************************************************)
MaxDomains == 2

MaxInitRecords == 2

Ip1 == <<203, 0, 113, 5>>

Ip2 == <<198, 51, 100, 9>>

Ip6 == <<8193, 3512, 0, 0, 0, 0, 0, 1>>

\* The [[domains]] entries a configuration is made of: com has no root and
\* a..com does not parse.
DomainConfigs ==
    {[name |-> <<"a", "com">>, ipv4 |-> Some("public"), ipv6 |-> TRUE],
     [name |-> <<"s", "a", "com">>, ipv4 |-> Some("private"), ipv6 |-> FALSE],
     [name |-> <<"b", "com">>, ipv4 |-> None, ipv6 |-> TRUE],
     [name |-> <<"com">>, ipv4 |-> Some("public"), ipv6 |-> FALSE],
     [name |-> <<"a", "", "com">>, ipv4 |-> None, ipv6 |-> TRUE]}

Configs == UNION {[1..n -> DomainConfigs] : n \in 0..MaxDomains}

\* The records the provider may hold at first, as on the wire.
SeedRecords ==
    <<[name |-> <<"a", "com">>, type |-> "A", content |-> Ipv4ToString(Ip1)],
      [name |-> <<"a", "com">>, type |-> "A", content |-> Ipv4ToString(Ip2)],
      [name |-> <<"s", "a", "com">>, type |-> "A", content |-> Ipv4ToString(Ip2)],
      [name |-> <<"a", "com">>, type |-> "TXT", content |-> <<"v">>]>>

\* The seeds at the positions of picked, in order, with ids 1, 2, ...
Seeded(picked) ==
    LET F[i \in 0..Len(SeedRecords)] ==
            IF i = 0 THEN <<>>
            ELSE IF i \in picked
                 THEN Append(F[i - 1], [id |-> Len(F[i - 1]) + 1,
                                        name |-> SeedRecords[i].name,
                                        type |-> SeedRecords[i].type,
                                        content |-> SeedRecords[i].content])
                 ELSE F[i - 1]
    IN  F[Len(SeedRecords)]

InitialProviders ==
    {Seeded(picked) : picked \in {p \in SUBSET (1..Len(SeedRecords)) :
                                      Cardinality(p) <= MaxInitRecords}}

\* What get_ipv4_private, get_ipv4_public and get_ipv6 may return in a run:
\* None is Err.
IpResults ==
    {[ipv4_private |-> Some(Ip1), ipv4_public |-> Some(Ip2), ipv6 |-> Some(Ip6)],
     [ipv4_private |-> None, ipv4_public |-> None, ipv6 |-> None]}

(***************************************************************************)
(* State.                                                                  *)
(***************************************************************************)
VARIABLES
    config,     \* config.domains
    provider,   \* the records the provider holds
    pc,         \* where main is: "start", "prepare", "retrieve", "update4",
                \* "update6", and ended: "done", "exit_err", "panicked"
    ips,        \* [ipv4_private, ipv4_public, ipv6] of main
    domains,    \* domains of main
    entries,    \* entries of main
    ri,         \* the position of the retrieval loop in the unique roots
    di,         \* the position of the update loop in domains
    sent,       \* the requests the last step sent
    last,       \* the last step: what was called, on what, and how it ended
    converged,  \* the (domain, content) pairs whose last update_dns returned
                \* Ok, the provider's records unchanged since
    run         \* of the run so far: whether test_auth was sent and returned
                \* Ok, and how many DNS requests were sent

vars ==
    <<config, provider, pc, ips, domains, entries, ri, di, sent, last, converged,
      run>>

NoRun == [auth |-> FALSE, dns |-> 0]

NoEntries == [root \in {} |-> <<>>]

NoIps == [ipv4_private |-> None, ipv4_public |-> None, ipv6 |-> None]

\* last: op is the function called; before is the provider's state before
\* it; again says of an update_dns that its pair was in converged.
Step(op, domain, content, result, why, counted, before) ==
    [op |-> op, domain |-> domain, content |-> content, result |-> result,
     why |-> why, counted |-> counted, before |-> before,
     again |-> op = "update_dns" /\ <<domain, content[1]>> \in converged]

RunOver == {"done", "exit_err", "panicked"}

Init ==
    /\ config \in Configs
    /\ provider \in InitialProviders
    /\ pc = "start"
    /\ ips = NoIps
    /\ domains = <<>>
    /\ entries = NoEntries
    /\ ri = 0
    /\ di = 0
    /\ sent = <<>>
    /\ last = Step("none", <<>>, None, "none", "", <<>>, provider)
    /\ converged = {}
    /\ run = NoRun

\* ClientBuilder::build, the endpoint given or the default one: a Client, or
\* MissingField for a key that was not set.
ClientBuilder_build(apikey, secretapikey) ==
    IF ~IsSome(apikey) \/ ~IsSome(secretapikey) THEN Err("MissingField")
    ELSE Ok("client")

\* main after client.test_auth() returned r, its result not looked at.
Authenticated_unchecked(r) ==
    /\ sent' = r.sent
    /\ provider' = r.prov
    /\ pc' = "prepare"
    /\ last' = Step("test_auth", <<>>, None, IF r.ret.ok THEN "ok" ELSE "err",
                    r.ret.err, <<>>, provider)

\* main after client.test_auth() returned r.
Authenticated(r) ==
    /\ sent' = r.sent
    /\ provider' = r.prov
    /\ pc' = IF r.ret.ok THEN "prepare" ELSE "exit_err"
    /\ last' = Step("test_auth", <<>>, None, IF r.ret.ok THEN "ok" ELSE "err",
                    r.ret.err, <<>>, provider)

\* main, lines 184-189: build()? returns the builder's error from main;
\* with a client, test_auth is called.
Started(built) ==
    IF built.ok
    THEN \E outcome \in {"ok", "err"} : Authenticated(test_auth(provider, outcome))
    ELSE /\ sent' = <<>>
         /\ pc' = "exit_err"
         /\ last' = Step("build", <<>>, None, "err", built.err, <<>>, provider)
         /\ UNCHANGED provider

\* main, lines 184-190: the client is built and test_auth called; a run of
\* the program starts with it.
Main_TestAuth ==
    /\ pc \in {"start"} \cup RunOver
    /\ Started(ClientBuilder_build(Some("apikey"), Some("secretapikey")))
    /\ ips' = NoIps
    /\ domains' = <<>>
    /\ entries' = NoEntries
    /\ ri' = 0
    /\ di' = 0
    /\ UNCHANGED config

\* main, lines 192-225: the addresses are looked up and the domains parsed.
Main_Prepare ==
    /\ pc = "prepare"
    /\ ips' \in IpResults
    /\ domains' = DomainInfos(config)
    /\ pc' = IF domains' = <<>> THEN "done" ELSE "retrieve"
    /\ ri' = IF domains' = <<>> THEN 0 ELSE 1
    /\ sent' = <<>>
    /\ last' = Step("prepare", <<>>, None, "ok", "", <<>>, provider)
    /\ UNCHANGED <<config, provider, entries, di>>

\* The closure of the retrieval loop after client.retrieve_dns(&info.root,
\* None) returned r: Ok is collected into entries under info.root.
Retrieved(info, r) ==
    /\ sent' = r.sent
    /\ provider' = r.prov
    /\ entries' = IF r.ret.ok
                  THEN [root \in DOMAIN entries \cup {info.root} |->
                           IF root = info.root THEN r.ret.val ELSE entries[root]]
                  ELSE entries
    /\ last' = Step("retrieve_dns", info.root, None,
                    IF r.ret.ok THEN "ok" ELSE "err", r.ret.err, <<>>, provider)

\* The retrieval loop at position ri of roots.
RetrieveAt(roots) ==
    /\ \E outcome \in {"ok", "err"} :
           Retrieved(roots[ri], retrieve_dns(provider, roots[ri].root, None, outcome))
    /\ pc' = IF ri = Len(roots) THEN "update4" ELSE "retrieve"
    /\ ri' = IF ri = Len(roots) THEN 0 ELSE ri + 1
    /\ di' = IF ri = Len(roots) THEN 1 ELSE 0

\* main, lines 227-243: one retrieve_dns of the loop over the unique roots.
Main_Retrieve ==
    /\ pc = "retrieve"
    /\ RetrieveAt(UniqueByRoot(domains))
    /\ UNCHANGED <<config, ips, domains>>

\* main after update_dns(&client, &entries, &domain.name, &content) returned
\* r: Err is logged and the loop goes on; a panic ends the run.
Reconciled(domain, content, r, pcNext, diNext) ==
    /\ sent' = r.sent
    /\ provider' = r.prov
    /\ last' = Step("update_dns", domain, Some(content), r.result, r.why,
                    r.counted, provider)
    /\ pc' = IF r.result = "panic" THEN "panicked" ELSE pcNext
    /\ di' = IF r.result = "panic" THEN di ELSE diNext

\* One call of update_dns from the loop of main.
Reconcile(domain, content, pcNext, diNext) ==
    \E outcome \in Outcomes :
        Reconciled(domain, content,
                   update_dns(provider, entries, domain, content, outcome),
                   pcNext, diNext)

\* A turn of the loop of main that calls nothing.
Skip(why, pcNext, diNext) ==
    /\ sent' = <<>>
    /\ last' = Step("skip", domains[di].name, None, "none", why, <<>>, provider)
    /\ pc' = pcNext
    /\ di' = diNext
    /\ UNCHANGED provider

\* The A record of domain: lines 246-267.
UpdateV4(domain, ipv4) ==
    IF ~IsSome(domain.config.ipv4) THEN Skip("not configured", "update6", di)
    ELSE IF ~IsSome(ipv4) THEN Skip("unable to get IPv4", "update6", di)
    ELSE Reconcile(domain.name, [kind |-> "A", value |-> ipv4[1]], "update6", di)

\* main, lines 246-267: the A record of domains[di].
Main_UpdateV4 ==
    /\ pc = "update4"
    /\ UpdateV4(domains[di],
                IF domains[di].config.ipv4 = Some("private") THEN ips.ipv4_private
                ELSE ips.ipv4_public)
    /\ UNCHANGED <<config, ips, domains, entries, ri>>

\* The AAAA record of domain, lines 269-283, and the loop's step.
UpdateV6(domain, pcNext, diNext) ==
    IF ~domain.config.ipv6 THEN Skip("not configured", pcNext, diNext)
    ELSE IF ~IsSome(ips.ipv6) THEN Skip("unable to get IPv6", pcNext, diNext)
    ELSE Reconcile(domain.name, [kind |-> "Aaaa", value |-> ips.ipv6[1]],
                   pcNext, diNext)

\* main, lines 269-283: the AAAA record of domains[di].
Main_UpdateV6 ==
    /\ pc = "update6"
    /\ UpdateV6(domains[di],
                IF di = Len(domains) THEN "done" ELSE "update4",
                IF di = Len(domains) THEN 0 ELSE di + 1)
    /\ UNCHANGED <<config, ips, domains, entries, ri>>

Next ==
    \/ Main_TestAuth /\ UNCHANGED <<converged, run>>
    \/ Main_Prepare /\ UNCHANGED <<converged, run>>
    \/ Main_Retrieve /\ UNCHANGED <<converged, run>>
    \/ Main_UpdateV4 /\ UNCHANGED <<converged, run>>
    \/ Main_UpdateV6 /\ UNCHANGED <<converged, run>>

Spec == Init /\ [][Next]_vars

(***************************************************************************)
(* The same program with its history recorded: converged holds the pairs   *)
(* (domain, content) whose last update_dns returned Ok with the provider's *)
(* records unchanged since.                                                *)
(***************************************************************************)
Record ==
    converged' =
        (IF provider' = provider THEN converged ELSE {})
            \cup (IF last'.op = "update_dns" /\ last'.result = "ok"
                  THEN {<<last'.domain, last'.content[1]>>}
                  ELSE {})

NextHistory ==
    \/ Main_TestAuth /\ Record /\ UNCHANGED run
    \/ Main_Prepare /\ Record /\ UNCHANGED run
    \/ Main_Retrieve /\ Record /\ UNCHANGED run
    \/ Main_UpdateV4 /\ Record /\ UNCHANGED run
    \/ Main_UpdateV6 /\ Record /\ UNCHANGED run

SpecHistory == Init /\ [][NextHistory]_vars

(***************************************************************************)
(* The same program with the requests of the run counted: run.auth says    *)
(* that the run sent the ping of test_auth and test_auth returned Ok,      *)
(* run.dns is the number of DNS requests the run has sent.  A run starts   *)
(* with the step that builds the client.                                   *)
(***************************************************************************)
\* The requests of the DNS methods of the Client.
DnsOps ==
    {"create", "edit", "editByNameType", "delete", "deleteByNameType",
     "retrieve", "retrieveByNameType"}

\* The number of requests in reqs that are DNS requests.
DnsCount(reqs) == Cardinality({i \in 1..Len(reqs) : reqs[i].op \in DnsOps})

Counted ==
    run' =
        IF last'.op \in {"build", "test_auth"}
        THEN [auth |-> /\ last'.result = "ok"
                       /\ \E i \in 1..Len(sent') : sent'[i].op = "ping",
              dns |-> DnsCount(sent')]
        ELSE [auth |-> run.auth, dns |-> run.dns + DnsCount(sent')]

NextAuth ==
    \/ Main_TestAuth /\ Counted /\ UNCHANGED converged
    \/ Main_Prepare /\ Counted /\ UNCHANGED converged
    \/ Main_Retrieve /\ Counted /\ UNCHANGED converged
    \/ Main_UpdateV4 /\ Counted /\ UNCHANGED converged
    \/ Main_UpdateV6 /\ Counted /\ UNCHANGED converged

SpecAuth == Init /\ [][NextAuth]_vars

(***************************************************************************)
(* The Client called directly: a caller of the library invokes the DNS     *)
(* methods of lib.rs in any order, on names with and without a root and a  *)
(* prefix.                                                                 *)
(***************************************************************************)
MaxRecords == 2

ApiNames == {<<"a", "com">>, <<"s", "a", "com">>, <<"com">>}

ApiContents == {[kind |-> "A", value |-> Ip1], [kind |-> "Txt", value |-> <<"v">>]}

ApiTypes == {"A", "Txt"}

InitClient ==
    /\ config = <<>>
    /\ provider \in InitialProviders
    /\ pc = "client"
    /\ ips = NoIps
    /\ domains = <<>>
    /\ entries = NoEntries
    /\ ri = 0
    /\ di = 0
    /\ sent = <<>>
    /\ last = Step("none", <<>>, None, "none", "", <<>>, provider)
    /\ converged = {}
    /\ run = NoRun

\* A method of the Client returned r to its caller.
Called(op, domain, content, r) ==
    /\ sent' = r.sent
    /\ provider' = r.prov
    /\ last' = Step(op, domain, content, IF r.ret.ok THEN "ok" ELSE "err",
                    r.ret.err, <<>>, provider)
    /\ UNCHANGED <<config, pc, ips, domains, entries, ri, di, converged, run>>

Call_create_dns ==
    /\ pc = "client"
    /\ MaxId(provider) < MaxRecords
    /\ \E domain \in ApiNames, content \in ApiContents, outcome \in Outcomes :
           Called("create_dns", domain, Some(content),
                  create_dns(provider, domain, content, outcome))

Call_edit_dns ==
    /\ pc = "client"
    /\ \E domain \in ApiNames, id \in 1..MaxRecords, content \in ApiContents,
          outcome \in Outcomes :
           Called("edit_dns", domain, Some(content),
                  edit_dns(provider, domain, id, content, outcome))

Call_edit_dns_by_name_type ==
    /\ pc = "client"
    /\ \E domain \in ApiNames, content \in ApiContents, outcome \in Outcomes :
           Called("edit_dns_by_name_type", domain, Some(content),
                  edit_dns_by_name_type(provider, domain, content, outcome))

Call_delete_dns ==
    /\ pc = "client"
    /\ \E domain \in ApiNames, id \in 1..MaxRecords, outcome \in Outcomes :
           Called("delete_dns", domain, None,
                  delete_dns(provider, domain, id, outcome))

Call_delete_dns_by_name_type ==
    /\ pc = "client"
    /\ \E domain \in ApiNames, type \in ApiTypes, outcome \in Outcomes :
           Called("delete_dns_by_name_type", domain, None,
                  delete_dns_by_name_type(provider, domain, type, outcome))

Call_retrieve_dns ==
    /\ pc = "client"
    /\ \E domain \in ApiNames, id \in {None} \cup {Some(i) : i \in 1..MaxRecords},
          outcome \in {"ok", "err"} :
           Called("retrieve_dns", domain, None,
                  retrieve_dns(provider, domain, id, outcome))

Call_retrieve_dns_by_name_type ==
    /\ pc = "client"
    /\ \E domain \in ApiNames, type \in ApiTypes, outcome \in {"ok", "err"} :
           Called("retrieve_dns_by_name_type", domain, None,
                  retrieve_dns_by_name_type(provider, domain, type, outcome))

NextClient ==
    \/ Call_create_dns
    \/ Call_edit_dns
    \/ Call_edit_dns_by_name_type
    \/ Call_delete_dns
    \/ Call_delete_dns_by_name_type
    \/ Call_retrieve_dns
    \/ Call_retrieve_dns_by_name_type

ClientSpec == InitClient /\ [][NextClient]_vars

(***************************************************************************)
(* Properties.  They read the last step: last.before is the provider's     *)
(* state when the function was called, provider its state on return, sent  *)
(* the requests the call made.                                             *)
(***************************************************************************)
\* The positions of the records of prov with the name domain and the type of
\* content.
ProviderMatches(prov, domain, content) ==
    {i \in 1..Len(prov) :
        prov[i].name = domain /\ prov[i].type = ContentTypeAsStr(content)}

\* The one record of prov at the positions hit.
TheRecord(prov, hit) == prov[CHOOSE i \in hit : TRUE]

\* The records of prov that do not have the name domain and the type of
\* content.
OtherRecords(prov, domain, content) ==
    LET other(rec) ==
            ~(rec.name = domain /\ rec.type = ContentTypeAsStr(content))
    IN  SelectSeq(prov, other)

\* The records of prov with the name domain and the type of content, as a
\* retrieval deserializes them.
MatchingRecords(prov, domain, content) ==
    LET same(rec) == rec.name = domain /\ rec.type = ContentTypeAsStr(content)
        found == SelectSeq(prov, same)
    IN  [i \in 1..Len(found) |-> DeserializeRecord(ToJson(found[i]))[1]]

\* The requests that change the provider's records.
MutatingOps == {"create", "edit", "editByNameType", "delete", "deleteByNameType"}

\* The last step was update_dns(domain, content) for some domain, content.
Reconciling == last.op = "update_dns"

\* The content main wants for the record of type kind of domains[j], None
\* when the type is not configured or the address was not found.
DesiredContent(j, kind) ==
    IF kind = "A"
    THEN IF domains[j].config.ipv4 = Some("private")
         THEN AddrContent("A", ips.ipv4_private)
         ELSE IF domains[j].config.ipv4 = Some("public")
         THEN AddrContent("A", ips.ipv4_public)
         ELSE None
    ELSE IF domains[j].config.ipv6 THEN AddrContent("Aaaa", ips.ipv6) ELSE None

\* The (position in domains, type) pairs the update loop of the run has yet
\* to call update_dns for.
Pending ==
    IF pc \notin {"update4", "update6", "panicked"} THEN {}
    ELSE {p \in (1..Len(domains)) \X {"A", "Aaaa"} :
            /\ \/ p[1] > di
               \/ /\ p[1] = di
                  /\ \/ pc = "update4"
                     \/ /\ p[2] = "Aaaa"
                        /\ \/ pc = "update6"
                           \/ pc = "panicked" /\ last.content[1].kind = "A"
            /\ IsSome(DesiredContent(p[1], p[2]))}

\* The retrieval of the records of root was sent in this run and failed.
RetrievalFailed(root) ==
    /\ \E i \in 1..Len(domains) : domains[i].root = root
    /\ ~IsSome(NamePrefix(root))
    /\ root \notin DOMAIN entries

\* C1: when the provider holds more than one record with the domain's name
\* and the desired content's type, update_dns returns an error to its caller
\* and sends no create, edit or delete, the provider's records unchanged.
C1_AmbiguousFails ==
    (/\ Reconciling
     /\ Cardinality(ProviderMatches(last.before, last.domain, last.content[1])) > 1)
        => /\ last.result = "err"
           /\ \A i \in 1..Len(sent) : sent[i].op \notin MutatingOps
           /\ provider = last.before

\* C2: for a configured domain, with a prefix or without, when the provider
\* holds no record with that name and type, update_dns sends exactly one
\* request, a create of the desired content at that domain, and returns Ok
\* unless that request failed.
C2_CreatesWhenAbsent ==
    (/\ Reconciling
     /\ ProviderMatches(last.before, last.domain, last.content[1]) = {})
        => /\ Len(sent) = 1
           /\ sent[1].op = "create"
           /\ FullName(sent[1].name, sent[1].root) = last.domain
           /\ sent[1].type = Some(ContentTypeAsStr(last.content[1]))
           /\ sent[1].content = Some(value_to_string(last.content[1]))
           /\ last.result = "ok" \/ last.why = "Reqwest"

\* C3: when the provider holds exactly one record with the name and type and
\* its content differs from the desired one, update_dns sends exactly one
\* request, an edit of that record's id to the desired content, and returns
\* Ok unless that request failed.
C3_EditsWhenDifferent ==
    (/\ Reconciling
     /\ Cardinality(ProviderMatches(last.before, last.domain, last.content[1])) = 1
     /\ MatchingRecords(last.before, last.domain, last.content[1])[1].content
            # last.content[1])
        => /\ Len(sent) = 1
           /\ sent[1].op = "edit"
           /\ sent[1].id =
                  Some(NumToStr(TheRecord(last.before,
                                          ProviderMatches(last.before, last.domain,
                                                          last.content[1])).id, 10))
           /\ sent[1].content = Some(value_to_string(last.content[1]))
           /\ last.result = "ok" \/ last.why = "Reqwest"

\* C4: when the provider holds exactly one record with the name and type and
\* its content equals the desired one, update_dns returns Ok and sends
\* nothing, the provider's records unchanged.
C4_NoOpWhenEqual ==
    (/\ Reconciling
     /\ Cardinality(ProviderMatches(last.before, last.domain, last.content[1])) = 1
     /\ MatchingRecords(last.before, last.domain, last.content[1])[1].content
            = last.content[1])
        => /\ last.result = "ok"
           /\ sent = <<>>
           /\ provider = last.before

\* C5: a failure of one update_dns never ends the run: when the run is over,
\* no configured (domain, type) pair is left that update_dns was not called
\* for.
C5_RunReachesEveryPair == pc = "panicked" => Pending = {}

\* C6: when the retrieval for the domain's root failed, or the create or
\* edit failed, update_dns returns the request's error, having sent at most
\* the one failed request.
C6_GatewayFailureReturned ==
    Reconciling =>
        /\ RetrievalFailed(NameRoot(last.domain)[1])
               => last.result = "err" /\ last.why = "Reqwest" /\ sent = <<>>
        /\ (sent # <<>> /\ last.result # "ok")
               => last.result = "err" /\ last.why = "Reqwest" /\ Len(sent) = 1

\* The DNS methods of the Client.
ClientOps ==
    {"create_dns", "edit_dns", "edit_dns_by_name_type", "delete_dns",
     "delete_dns_by_name_type", "retrieve_dns", "retrieve_dns_by_name_type"}

\* The last call returned e having sent nothing and changed nothing.
RefusedWith(e) ==
    /\ last.result = "err"
    /\ last.why = e
    /\ sent = <<>>
    /\ provider = last.before

\* C7: a DNS method of the Client called on a name without a root returns
\* MissingRoot, and delete_dns and retrieve_dns called on a name with a prefix
\* return HasPrefix, each with no request sent and the provider's records
\* unchanged; a call that returns either error has sent nothing.
C7_ValidationBeforeRequest ==
    last.op \in ClientOps =>
        /\ ~IsSome(NameRoot(last.domain)) => RefusedWith("MissingRoot")
        /\ (/\ last.op \in {"delete_dns", "retrieve_dns"}
            /\ IsSome(NameRoot(last.domain))
            /\ IsSome(NamePrefix(last.domain))) => RefusedWith("HasPrefix")
        /\ last.why \in {"MissingRoot", "HasPrefix"} => RefusedWith(last.why)

\* delete_dns refused a name with a prefix while the provider held records
\* of its zone.
C7_Witness ==
    /\ last.op = "delete_dns"
    /\ last.why = "HasPrefix"
    /\ \E i \in 1..Len(provider) : InZone(provider[i], NameRoot(last.domain)[1])

\* C8: after an update_dns of (domain, content) that returned Ok, the
\* provider's records unchanged since, the provider holds exactly one record
\* with that name and type and its content is the desired one; and an
\* update_dns of the same pair then sends nothing and changes nothing.
C8_Idempotent ==
    /\ \A p \in converged :
           /\ Cardinality(ProviderMatches(provider, p[1], p[2])) = 1
           /\ MatchingRecords(provider, p[1], p[2])[1].content = p[2]
    /\ (Reconciling /\ last.again) => sent = <<>> /\ provider = last.before

\* A second update_dns of a pair found the record the first had made.
C8_Witness ==
    /\ Reconciling
    /\ last.again
    /\ last.result = "ok"
    /\ last.content[1].kind = "Aaaa"
    /\ <<last.domain, last.content[1]>> \in converged

\* C9: an update_dns of one (domain, type) pair leaves every record of
\* another name or type as it was, and the records the run retrieved for a
\* pair it has yet to reconcile are still those the provider holds.
C9_NoInterference ==
    /\ Reconciling =>
           OtherRecords(provider, last.domain, last.content[1])
               = OtherRecords(last.before, last.domain, last.content[1])
    /\ \A p \in Pending :
           NameRoot(domains[p[1]].name)[1] \in DOMAIN entries =>
               Matching(entries[NameRoot(domains[p[1]].name)[1]],
                        domains[p[1]].name, DesiredContent(p[1], p[2])[1])
                   = MatchingRecords(provider, domains[p[1]].name,
                                     DesiredContent(p[1], p[2])[1])

\* An update_dns changed the provider's records while it held records of
\* another pair and another pair, its records retrieved, was yet to come.
C9_Witness ==
    /\ Reconciling
    /\ provider # last.before
    /\ OtherRecords(provider, last.domain, last.content[1]) # <<>>
    /\ \E p \in Pending :
           /\ NameRoot(domains[p[1]].name)[1] \in DOMAIN entries
           /\ MatchingRecords(provider, domains[p[1]].name,
                              DesiredContent(p[1], p[2])[1]) # <<>>

\* C10: the records update_dns counts are exactly the provider's records
\* whose name is the domain and whose type is that of the desired content.
C10_CountsExactMatches ==
    (Reconciling /\ last.why \notin {"no root", "no entry"}) =>
        last.counted = MatchingRecords(last.before, last.domain, last.content[1])

\* update_dns counted a record while the provider held, in the same zone,
\* a record of another name and a record of the same name and another type.
C10_Witness ==
    /\ Reconciling
    /\ last.counted # <<>>
    /\ \E i \in 1..Len(last.before) :
           /\ InZone(last.before[i], NameRoot(last.domain)[1])
           /\ last.before[i].name # last.domain
    /\ \E i \in 1..Len(last.before) :
           /\ last.before[i].name = last.domain
           /\ last.before[i].type # ContentTypeAsStr(last.content[1])

(***************************************************************************)
(* record.rs: a content string parsed, rendered and parsed again.  pc is   *)
(* "input", "parsed" or "rejected", "rendered", "reparsed"; last holds the *)
(* type, the string and what the functions returned.                       *)
(***************************************************************************)
\* Octets as a record's content may spell them, well and badly.
OctetTexts ==
    {<<"0">>, <<"7">>, <<"0", "7">>, <<"2", "5", "5">>, <<"2", "5", "6">>}

\* Dotted lists of four and of three octets.
V4Texts ==
    {Join(<<a, b, c, d>>, ".") : a \in OctetTexts, b \in OctetTexts,
                                  c \in OctetTexts, d \in OctetTexts}
        \cup {Join(<<a, b, c>>, ".") : a \in OctetTexts, b \in OctetTexts,
                                        c \in OctetTexts}

\* The values the segments of the addresses written in full take.
GroupVals == {0, 3512, 65535}

\* A segment in four hexadecimal digits of the given table.
PaddedGroup(n, digits) ==
    <<digits[(n \div 4096) + 1], digits[((n \div 256) % 16) + 1],
      digits[((n \div 16) % 16) + 1], digits[(n % 16) + 1]>>

\* An address in full, eight groups of four digits.
FullText(addr, digits) ==
    Join([i \in 1..8 |-> PaddedGroup(addr[i], digits)], ":")

\* Addresses in the shortened forms, and strings that are no address.
ShortV6Texts ==
    {<<":", ":">>,
     <<":", ":", "1">>,
     <<"1", ":", ":">>,
     <<"2", "0", "0", "1", ":", "d", "b", "8", ":", ":", "1">>,
     <<"2", "0", "0", "1", ":", "D", "B", "8", ":", ":", "1">>,
     <<":", ":", "f", "f", "f", "f", ":", "1", ".", "2", ".", "3", ".", "4">>,
     <<":", ":", "1", ".", "2", ".", "3", ".", "4">>,
     <<"1", ":", ":", "2", ":", "0", ":", "0", ":", "3">>,
     <<"1", ":", "0", ":", "0", ":", "2", ":", ":", "3">>,
     <<"0", ":", "0", ":", "0", ":", "0", ":", "0", ":", "0", ":", "0", ":", "0">>,
     <<"1", ":", "2", ":", "3", ":", "4", ":", "5", ":", "6", ":", "7", ":", ":">>,
     <<"1", ":", "2", ":", "3", ":", "4", ":", "5", ":", "6", ":", "1", ".", "2", ".", "3", ".", "4">>,
     <<":", ":", ":">>,
     <<"1", ":", ":", "2", ":", ":", "3">>,
     <<"1", ":", "2", ":", "3">>,
     <<"1", "2", "3", "4", "5", ":", ":">>,
     <<"g", ":", ":", "1">>,
     <<":", ":", "f", "f", "f", "f", ":", "1", ".", "2", ".", "3", ".", "2", "5", "6">>,
     <<"1", ":", "2", ":", "3", ":", "4", ":", "5", ":", "6", ":", "7", ":", "8", ":", "9">>}

V6Texts ==
    {FullText(addr, HexChars) : addr \in [1..8 -> GroupVals]}
        \cup {FullText(addr, UpperHexChars) : addr \in [1..8 -> {0, 65535}]}
        \cup ShortV6Texts

\* Strings tried with every type.
CommonTexts ==
    {<<>>,
     <<"v">>,
     <<"1", ".", "2", ".", "3", ".", "4">>,
     <<":", ":", "1">>,
     <<"2", "0", "3", ".", "0", ".", "1", "1", "3", ".", "5">>,
     <<"0", "1", ".", "2", ".", "3", ".", "4">>,
     <<"1", ".", "2", ".", "3">>,
     <<"2", "0", "0", "1", ":", "d", "b", "8", ":", ":", "1">>}

\* The (type, content string) pairs Content::from is called with.
ContentInputs ==
    (Types \X CommonTexts) \cup ({"A"} \X V4Texts) \cup ({"Aaaa"} \X V6Texts)

\* last of the round trip.
Trip(type, str, first, rendered, second) ==
    [type |-> type, str |-> str, first |-> first, rendered |-> rendered,
     second |-> second]

InitRoundTrip ==
    /\ config = <<>>
    /\ provider = <<>>
    /\ pc = "input"
    /\ ips = NoIps
    /\ domains = <<>>
    /\ entries = NoEntries
    /\ ri = 0
    /\ di = 0
    /\ sent = <<>>
    /\ \E in \in ContentInputs : last = Trip(in[1], in[2], None, None, None)
    /\ converged = {}
    /\ run = NoRun

\* Content::from(&type, str).
Content_from ==
    /\ pc = "input"
    /\ last' = [last EXCEPT !.first = ContentFrom(last.type, last.str)]
    /\ pc' = IF IsSome(last'.first) THEN "parsed" ELSE "rejected"
    /\ UNCHANGED <<config, provider, ips, domains, entries, ri, di, sent, converged,
                   run>>

\* content.value_to_string() of the parsed content.
Content_value_to_string ==
    /\ pc = "parsed"
    /\ last' = [last EXCEPT !.rendered = Some(value_to_string(last.first[1]))]
    /\ pc' = "rendered"
    /\ UNCHANGED <<config, provider, ips, domains, entries, ri, di, sent, converged,
                   run>>

\* Content::from(&type, rendered).
Content_from_rendered ==
    /\ pc = "rendered"
    /\ last' = [last EXCEPT !.second = ContentFrom(last.type, last.rendered[1])]
    /\ pc' = "reparsed"
    /\ UNCHANGED <<config, provider, ips, domains, entries, ri, di, sent, converged,
                   run>>

NextRoundTrip ==
    \/ Content_from
    \/ Content_value_to_string
    \/ Content_from_rendered

RoundTripSpec == InitRoundTrip /\ [][NextRoundTrip]_vars

\* C11: for every type and every content string that parses for it, the
\* rendering of the parsed content parses again, for the same type, to a
\* content equal to the first, and the type of both contents is that type.
C11_RoundTrip ==
    /\ pc \in {"parsed", "rendered", "reparsed"} =>
           TypeFrom(last.first[1]) = last.type
    /\ pc = "reparsed" =>
           /\ IsSome(last.second)
           /\ last.second = last.first
           /\ TypeFrom(last.second[1]) = last.type
           /\ ContentTypeAsStr(last.second[1]) = TypeAsStr(last.type)

\* An AAAA content written in full came back from its shortened rendering.
C11_Witness ==
    /\ pc = "reparsed"
    /\ last.type = "Aaaa"
    /\ last.rendered[1] # last.str
    /\ Len(last.rendered[1]) < Len(last.str)
    /\ \E i \in 1..8 : last.first[1].value[i] = 3512

\* C12: a run sends no DNS request unless it has sent the ping of test_auth
\* and test_auth returned Ok; a run that ends because the client was not
\* built or test_auth returned an error has sent no DNS request.
C12_AuthBeforeDns ==
    /\ run.dns > 0 => run.auth
    /\ DnsCount(sent) > 0 => run.auth
    /\ pc = "exit_err" => run.dns = 0 /\ DnsCount(sent) = 0

\* A run that authenticated has retrieved records and created one.
C12_Witness ==
    /\ run.auth
    /\ run.dns > 1
    /\ \E i \in 1..Len(sent) : sent[i].op = "create"

====
